---- MODULE Spec2Model ----
\* Model of compiler-core/src/parse/extra.rs: the ModuleExtra trivia index,
\* its three queries, and the (span, text) -> Comment conversion.
EXTENDS Integers, Sequences, FiniteSets, TLC

----------------------------------------------------------------------------
\* Bounds of the model.

\* Largest byte offset of a span or a query, and longest comments sequence,
\* in Spec.
MaxOff == 4
MaxLen == 3
\* Largest byte offset and longest comments sequence in SpecAny.
MaxAnyOff == 1
MaxAnyLen == 3
\* Largest byte offset and longest sequence of each of the three comment
\* sequences in SpecWithin.
MaxWithinOff == 1
MaxWithinLen == 2
\* SpecIndex: largest offset and longest comments sequence; largest offset and
\* longest sequence of doc_comments and module_comments; largest position in
\* empty_lines, new_lines and trailing_commas.
MaxIdxOff == 1
MaxIdxLen == 2
MaxOtherOff == 0
MaxOtherLen == 1
MaxPos == 0
\* SpecComment: most characters of a source text, largest offset of a span.
MaxChars == 3
MaxSpanOff == 7

----------------------------------------------------------------------------
\* Values.

\* Option<T>: None is the empty sequence, Some(x) the one-element sequence.
None == <<>>
Some(x) == <<x>>

SrcSpan(s, e) == [start |-> s, end |-> e]

\* Sequences over S of length at most n.
SeqUpTo(S, n) == UNION {[1..k -> S] : k \in 0..n}

\* Spans over the offsets 0..maxOff: all of them, and those with start <= end.
AllSpans(maxOff) == {SrcSpan(s, e) : s \in 0..maxOff, e \in 0..maxOff}

Spans(maxOff) == {sp \in AllSpans(maxOff) : sp.start <= sp.end}

\* The producer contract: sorted by start, mutually non-overlapping, the end
\* of one span may equal the start of the next.
SortedNonOverlapping(list) ==
    /\ \A i \in 1..Len(list) : list[i].start <= list[i].end
    /\ \A i \in 1..(Len(list) - 1) : list[i].end <= list[i + 1].start

SortedLists(maxOff, maxLen) ==
    {l \in SeqUpTo(Spans(maxOff), maxLen) : SortedNonOverlapping(l)}

\* Every sequence of spans, well formed or not.
AnyLists(maxOff, maxLen) == SeqUpTo(AllSpans(maxOff), maxLen)

----------------------------------------------------------------------------
\* State.

VARIABLES
    extra,               \* the ModuleExtra: its six sequences
    pc,                  \* "idle", "loop" (inside first_comment_between), "done", "panic"
    op,                  \* the operation running: "none", "first", "has", "within", "from"
    start,               \* argument start (byte_index for is_within_comment)
    end,                 \* argument end
    search_list,         \* local of first_comment_between
    first_index_so_far,  \* local of first_comment_between
    searches,            \* successful searches of the running query
    ret_span,            \* value returned by first_comment_between
    ret_bool,            \* value returned by has_comment_between / is_within_comment
    last,                \* result of the previous identical query, if repeated
    text,                \* the source text handed to Comment::from, as UTF-8 bytes
    src,                 \* the span handed to Comment::from
    converted            \* the Comment built by Comment::from

vars == <<extra, pc, op, start, end, search_list, first_index_so_far,
          searches, ret_span, ret_bool, last, text, src, converted>>

\* What the queries never touch.
convVars == <<text, src, converted>>

ModuleExtra(mc, dc, c, el, nl, tc) ==
    [module_comments |-> mc, doc_comments |-> dc, comments |-> c,
     empty_lines |-> el, new_lines |-> nl, trailing_commas |-> tc]

----------------------------------------------------------------------------
\* slice::binary_search_by over a slice whose comparator results are ords.
\* Any index may be probed; an Equal probe is returned, a Less probe moves to
\* the right part, a Greater probe to the left part.  The outcomes are Some(i)
\* (Ok) with a 0-based index, or None (Err).

RECURSIVE Probe(_, _, _)
Probe(ords, lo, hi) ==
    IF lo >= hi THEN {None}
    ELSE UNION { IF ords[mid + 1] = "Equal" THEN {Some(mid)}
                 ELSE IF ords[mid + 1] = "Less" THEN Probe(ords, mid + 1, hi)
                 ELSE Probe(ords, lo, mid) : mid \in lo..(hi - 1) }

binary_search_by(ords) == Probe(ords, 0, Len(ords))

\* Variant of BetweenCmp: a span that only touches the query is not a match.
BetweenCmpExclusive(comment, s, e) ==
    IF comment.end <= s THEN "Less"
    ELSE IF comment.start >= e THEN "Greater"
    ELSE "Equal"

\* Variant of BetweenCmp: a span past the end of the query counts as a match.
BetweenCmpNoGreater(comment, s, e) ==
    IF comment.end < s THEN "Less" ELSE "Equal"

\* The comparator of find_comment_between.
BetweenCmp(comment, s, e) ==
    IF comment.end < s THEN "Less"
    ELSE IF comment.start > e THEN "Greater"
    ELSE "Equal"

\* find_comment_between: the possible results for one search list.
find_comment_between(comments, s, e) ==
    IF Len(comments) = 0 THEN {None}
    ELSE binary_search_by([i \in 1..Len(comments) |-> BetweenCmp(comments[i], s, e)])

\* Variant of GetPrefix: get(0..=index), the element found stays in the list.
GetPrefixInclusive(list, index) ==
    IF index < Len(list) THEN SubSeq(list, 1, index + 1) ELSE <<>>

\* Variant of GetPrefix: get(index + 1..), the part after the element found.
GetPrefixAfter(list, index) ==
    IF index + 1 <= Len(list) THEN SubSeq(list, index + 2, Len(list)) ELSE <<>>

\* slice.get(0..index).unwrap_or(&[])
GetPrefix(list, index) ==
    IF index <= Len(list) THEN SubSeq(list, 1, index) ELSE <<>>

\* Variant of GetIndexed: the index is taken as 1-based, get(index - 1).
GetIndexedOneBased(optIndex, comments) ==
    IF optIndex = None THEN None
    ELSE IF optIndex[1] >= 1 /\ optIndex[1] - 1 < Len(comments)
         THEN Some(comments[optIndex[1]])
    ELSE None

\* first_index_so_far.and_then(|index| self.comments.get(index)).copied()
GetIndexed(optIndex, comments) ==
    IF optIndex = None THEN None
    ELSE IF optIndex[1] < Len(comments) THEN Some(comments[optIndex[1] + 1])
    ELSE None

----------------------------------------------------------------------------
\* Operations.

\* Entry of first_comment_between(s, e), directly or from has_comment_between.
Call(o, s, e) ==
    /\ pc = "idle"
    /\ pc' = "loop"
    /\ op' = o
    /\ start' = s
    /\ end' = e
    /\ search_list' = extra.comments
    /\ first_index_so_far' = None
    /\ searches' = 0
    /\ UNCHANGED <<extra, ret_span, ret_bool, last, convVars>>

CallFirst == \E s \in 0..MaxOff, e \in 0..MaxOff : s <= e /\ Call("first", s, e)

CallHas == \E s \in 0..MaxOff, e \in 0..MaxOff : s <= e /\ Call("has", s, e)

\* Variant of Narrow: the first match found is kept, no earlier one is sought.
NarrowStopsAtFirst ==
    /\ pc = "loop"
    /\ \E found \in find_comment_between(search_list, start, end) :
          /\ found # None
          /\ first_index_so_far' = Some(found[1])
          /\ search_list' = <<>>
    /\ searches' = searches + 1
    /\ UNCHANGED <<extra, pc, op, start, end, ret_span, ret_bool, last, convVars>>

\* One iteration of the while-let loop whose search succeeds.
Narrow ==
    /\ pc = "loop"
    /\ \E found \in find_comment_between(search_list, start, end) :
          /\ found # None
          /\ first_index_so_far' = Some(found[1])
          /\ search_list' = GetPrefix(search_list, found[1])
    /\ searches' = searches + 1
    /\ UNCHANGED <<extra, pc, op, start, end, ret_span, ret_bool, last, convVars>>

\* Variant of Finish: has_comment_between also looks at doc_comments and
\* module_comments.
FinishAnyComment ==
    /\ pc = "loop"
    /\ None \in find_comment_between(search_list, start, end)
    /\ pc' = "done"
    /\ LET r == GetIndexed(first_index_so_far, extra.comments)
           others == extra.doc_comments \o extra.module_comments IN
          IF op = "first"
          THEN ret_span' = r /\ ret_bool' = FALSE
          ELSE /\ ret_span' = None
               /\ ret_bool' = (\/ r # None
                               \/ \E i \in 1..Len(others) :
                                     BetweenCmp(others[i], start, end) = "Equal")
    /\ UNCHANGED <<extra, op, start, end, search_list, first_index_so_far,
                   searches, last, convVars>>

\* The failing search that ends the loop, and the return.
Finish ==
    /\ pc = "loop"
    /\ None \in find_comment_between(search_list, start, end)
    /\ pc' = "done"
    /\ LET r == GetIndexed(first_index_so_far, extra.comments) IN
          IF op = "first"
          THEN ret_span' = r /\ ret_bool' = FALSE
          ELSE ret_span' = None /\ ret_bool' = (r # None)
    /\ UNCHANGED <<extra, op, start, end, search_list, first_index_so_far,
                   searches, last, convVars>>

\* The caller takes the result; the index is ready for the next query.
Return ==
    /\ pc = "done"
    /\ pc' = "idle"
    /\ op' = "none"
    /\ start' = 0
    /\ end' = 0
    /\ search_list' = <<>>
    /\ first_index_so_far' = None
    /\ searches' = 0
    /\ ret_span' = None
    /\ ret_bool' = FALSE
    /\ last' = None
    /\ src' = SrcSpan(0, 0)
    /\ converted' = None
    /\ UNCHANGED <<extra, text>>

InitQuery ==
    /\ pc = "idle"
    /\ op = "none"
    /\ start = 0
    /\ end = 0
    /\ search_list = <<>>
    /\ first_index_so_far = None
    /\ searches = 0
    /\ ret_span = None
    /\ ret_bool = FALSE
    /\ last = None
    /\ src = SrcSpan(0, 0)
    /\ converted = None

\* An index that honours the producer contract; only comments is populated.
Init ==
    /\ \E c \in SortedLists(MaxOff, MaxLen) :
          extra = ModuleExtra(<<>>, <<>>, c, <<>>, <<>>, <<>>)
    /\ text = <<>>
    /\ InitQuery

Next == CallFirst \/ CallHas \/ Narrow \/ Finish \/ Return

Spec == Init /\ [][Next]_vars

----------------------------------------------------------------------------
\* The same queries on an index that need not honour the producer contract,
\* with queries that need not have start <= end.

CallFirstAny == \E s \in 0..MaxAnyOff, e \in 0..MaxAnyOff : Call("first", s, e)

CallHasAny == \E s \in 0..MaxAnyOff, e \in 0..MaxAnyOff : Call("has", s, e)

InitAny ==
    /\ \E c \in AnyLists(MaxAnyOff, MaxAnyLen) :
          extra = ModuleExtra(<<>>, <<>>, c, <<>>, <<>>, <<>>)
    /\ text = <<>>
    /\ InitQuery

NextAny == CallFirstAny \/ CallHasAny \/ Narrow \/ Finish \/ Return

SpecAny == InitAny /\ [][NextAny]_vars

----------------------------------------------------------------------------
\* is_within_comment.

\* Variant of WithinCmp: the two orderings are exchanged.
WithinCmpSwapped(span, byte_index) ==
    IF byte_index < span.start THEN "Less"
    ELSE IF byte_index > span.end THEN "Greater"
    ELSE "Equal"

\* The comparator of is_within_comment.
WithinCmp(span, byte_index) ==
    IF byte_index < span.start THEN "Greater"
    ELSE IF byte_index > span.end THEN "Less"
    ELSE "Equal"

\* list.binary_search_by(cmp).is_ok(): the possible results.
WithinSearch(list, byte_index) ==
    {r # None :
        r \in binary_search_by([i \in 1..Len(list) |-> WithinCmp(list[i], byte_index)])}

\* The possible results of is_within_comment(byte_index).
is_within_comment(e, byte_index) ==
    {a \/ b \/ c : a \in WithinSearch(e.comments, byte_index),
                   b \in WithinSearch(e.doc_comments, byte_index),
                   c \in WithinSearch(e.module_comments, byte_index)}

Within(byte_index) ==
    /\ pc = "idle"
    /\ pc' = "done"
    /\ op' = "within"
    /\ start' = byte_index
    /\ end' = byte_index
    /\ ret_bool' \in is_within_comment(extra, byte_index)
    /\ UNCHANGED <<extra, search_list, first_index_so_far, searches, ret_span, last,
                   convVars>>

CallWithin == \E b \in 0..MaxWithinOff : Within(b)

\* The three comment sequences each honour the producer contract; nothing
\* relates one sequence to another.
InitWithin ==
    /\ \E c \in SortedLists(MaxWithinOff, MaxWithinLen),
          dc \in SortedLists(MaxWithinOff, MaxWithinLen),
          mc \in SortedLists(MaxWithinOff, MaxWithinLen) :
          extra = ModuleExtra(mc, dc, c, <<>>, <<>>, <<>>)
    /\ text = <<>>
    /\ InitQuery

NextWithin == CallWithin \/ Return

SpecWithin == InitWithin /\ [][NextWithin]_vars

----------------------------------------------------------------------------
\* All three queries on an index with all six sequences populated, each query
\* possibly issued again with the same arguments.

Result == [span |-> ret_span, bool |-> ret_bool]

CallFirstIdx == \E s \in 0..MaxIdxOff, e \in 0..MaxIdxOff : s <= e /\ Call("first", s, e)

CallHasIdx == \E s \in 0..MaxIdxOff, e \in 0..MaxIdxOff : s <= e /\ Call("has", s, e)

CallWithinIdx == \E b \in 0..MaxIdxOff : Within(b)

\* The caller issues first_comment_between / has_comment_between again.
RepeatSearch ==
    /\ pc = "done"
    /\ op \in {"first", "has"}
    /\ last' = Some(Result)
    /\ pc' = "loop"
    /\ search_list' = extra.comments
    /\ first_index_so_far' = None
    /\ searches' = 0
    /\ ret_span' = None
    /\ ret_bool' = FALSE
    /\ UNCHANGED <<extra, op, start, end, convVars>>

\* The caller issues is_within_comment again.
RepeatWithin ==
    /\ pc = "done"
    /\ op = "within"
    /\ last' = Some(Result)
    /\ ret_bool' \in is_within_comment(extra, start)
    /\ UNCHANGED <<extra, pc, op, start, end, search_list, first_index_so_far,
                   searches, ret_span, convVars>>

\* The position sequences: empty, or one position.
PosLists == {<<>>} \cup {<<p>> : p \in 0..MaxPos}

\* The three comment sequences each honour the producer contract; the three
\* position sequences, which no query reads, are populated alike.
InitIdx ==
    /\ \E c \in SortedLists(MaxIdxOff, MaxIdxLen),
          dc \in SortedLists(MaxOtherOff, MaxOtherLen),
          mc \in SortedLists(MaxOtherOff, MaxOtherLen),
          ps \in PosLists :
          extra = ModuleExtra(mc, dc, c, ps, ps, ps)
    /\ text = <<>>
    /\ InitQuery

NextIdx ==
    \/ CallFirstIdx
    \/ CallHasIdx
    \/ CallWithinIdx
    \/ Narrow
    \/ Finish
    \/ RepeatSearch
    \/ RepeatWithin
    \/ Return

SpecIndex == InitIdx /\ [][NextIdx]_vars

----------------------------------------------------------------------------
\* impl From<(&SrcSpan, &str)> for Comment.

\* UTF-8 encodings of 'a', U+00E9 and U+20AC: one, two and three bytes.
Chars == {<<97>>, <<195, 169>>, <<226, 130, 172>>}

RECURSIVE Flatten(_)
Flatten(cs) == IF cs = <<>> THEN <<>> ELSE Head(cs) \o Flatten(Tail(cs))

\* The valid UTF-8 texts of at most MaxChars characters.
Texts == {Flatten(cs) : cs \in SeqUpTo(Chars, MaxChars)}

\* Variant of IsCharBoundary: only the length is checked, as for a byte slice.
IsCharBoundaryOfBytes(txt, index) == index <= Len(txt)

\* str::is_char_boundary(index): 0 and len are boundaries, an offset past len
\* is not, and inside the text a byte starts a character unless it is a
\* continuation byte 0b10xxxxxx.
IsCharBoundary(txt, index) ==
    IF index = 0 THEN TRUE
    ELSE IF index >= Len(txt) THEN index = Len(txt)
    ELSE txt[index + 1] < 128 \/ txt[index + 1] >= 192

\* Variant of StrGet: get(from..=to), the byte at offset to is included.
StrGetInclusive(txt, from, to) ==
    IF from <= to + 1 /\ to < Len(txt)
       /\ IsCharBoundary(txt, from) /\ IsCharBoundary(txt, to + 1)
    THEN Some(SubSeq(txt, from + 1, to + 1))
    ELSE None

\* str::get(from..to): the bytes at offsets from up to, not including, to.
StrGet(txt, from, to) ==
    IF from <= to /\ IsCharBoundary(txt, from) /\ IsCharBoundary(txt, to)
    THEN Some(SubSeq(txt, from + 1, to))
    ELSE None

\* Comment::from((span, text)): Some(comment), or None when expect() panics.
CommentFrom(span, txt) ==
    LET content == StrGet(txt, span.start, span.end) IN
    IF content = None THEN None
    ELSE Some([start |-> span.start, content |-> content[1]])

From(span) ==
    /\ pc = "idle"
    /\ op' = "from"
    /\ src' = span
    /\ converted' = CommentFrom(span, text)
    /\ pc' = IF CommentFrom(span, text) = None THEN "panic" ELSE "done"
    /\ UNCHANGED <<extra, start, end, search_list, first_index_so_far, searches,
                   ret_span, ret_bool, last, text>>

CallFrom == \E s \in 0..MaxSpanOff, e \in 0..MaxSpanOff : From(SrcSpan(s, e))

InitComment ==
    /\ extra = ModuleExtra(<<>>, <<>>, <<>>, <<>>, <<>>, <<>>)
    /\ text \in Texts
    /\ InitQuery

NextComment == CallFrom \/ Return

SpecComment == InitComment /\ [][NextComment]_vars

----------------------------------------------------------------------------
\* Properties of first_comment_between.

\* span.end >= start AND span.start <= end
Overlaps(span, s, e) == span.end >= s /\ span.start <= e

\* The 1-based positions of the comments overlapping the query.
Overlapping(comments, s, e) ==
    {i \in 1..Len(comments) : Overlaps(comments[i], s, e)}

Returned == pc = "done" /\ op = "first"

\* C1: on a sorted, non-overlapping comments sequence and a query with
\* start <= end, first_comment_between returns an overlapping span whose start
\* is the smallest among all overlapping spans (the one at the least
\* overlapping position), and None when no span overlaps, whichever matching
\* index each binary search returned.
C1_FirstIsLeftmost ==
    Returned =>
        LET ov == Overlapping(extra.comments, start, end) IN
        IF ov = {} THEN ret_span = None
        ELSE /\ ret_span # None
             /\ Overlaps(ret_span[1], start, end)
             /\ \A i \in ov : /\ ret_span[1].start <= extra.comments[i].start
                              /\ \E j \in ov : j <= i /\ extra.comments[j] = ret_span[1]

\* C1 witness: several spans overlap, the first search did not land on the
\* leftmost one, and the leftmost one was returned.
C1_Witness ==
    /\ Returned
    /\ Cardinality(Overlapping(extra.comments, start, end)) >= 2
    /\ searches >= 2
    /\ ret_span = Some(extra.comments[1])

\* No span at a position before i overlaps the query.
NoEarlierOverlap(i) ==
    \A j \in 1..(i - 1) : ~Overlaps(extra.comments[j], start, end)

\* Every span holds at least one byte between its ends.
NonEmptySpans(list) == \A i \in 1..Len(list) : list[i].start < list[i].end

\* C4 as stated: a query exactly equal to a span's bounds returns that span
\* (shown here on sequences of non-empty spans, where only a span adjacent to
\* the query start can come before).
C4_ExactQueryReturnsThatSpan ==
    (Returned /\ NonEmptySpans(extra.comments)) =>
        \A i \in 1..Len(extra.comments) :
            extra.comments[i] = SrcSpan(start, end) => ret_span = Some(extra.comments[i])

\* C4 amended: overlap is inclusive at both ends of both ranges.  A point
\* query matches a span containing the offset; a query equal to a span's
\* bounds, or sharing only one boundary offset with a span, returns that span
\* when no earlier span overlaps the query.
C4_InclusiveBounds ==
    Returned =>
        /\ (start = end /\ \E i \in 1..Len(extra.comments) :
                extra.comments[i].start <= start /\ start <= extra.comments[i].end)
           => (ret_span # None /\ ret_span[1].start <= start /\ start <= ret_span[1].end)
        /\ \A i \in 1..Len(extra.comments) :
              (/\ \/ extra.comments[i] = SrcSpan(start, end)
                  \/ extra.comments[i].start = end
                  \/ extra.comments[i].end = start
               /\ NoEarlierOverlap(i))
              => ret_span = Some(extra.comments[i])

\* C4 witness: the query shares only its end offset with the returned span.
C4_Witness ==
    /\ Returned
    /\ start < end
    /\ ret_span # None
    /\ ret_span[1].start = end
    /\ ret_span[1].start < ret_span[1].end

\* floor(log2(n)) + 1 for n > 0, and 0 for n = 0: the number of successful
\* searches when every search returns the middle of its list.
LogBound(n) == CHOOSE k \in 0..n : 2^k > n /\ (k = 0 \/ 2^(k - 1) <= n)

\* No two spans share an offset.
Separated(list) == \A i \in 1..(Len(list) - 1) : list[i].end < list[i + 1].start

\* C8 as stated: the number of narrowing iterations is logarithmic in the
\* length of comments (shown here on sequences of separated spans).
C8_SearchesLogarithmic ==
    (pc \in {"loop", "done"} /\ Separated(extra.comments)) =>
        searches <= LogBound(Len(extra.comments))

\* C8 amended: the number of narrowing iterations is at most the number of
\* spans overlapping the query (hence at most the length of comments).
C8_SearchesBoundedByOverlaps ==
    pc \in {"loop", "done"} =>
        /\ searches <= Cardinality(Overlapping(extra.comments, start, end))
        /\ searches <= Len(extra.comments)

\* C8 witness: every span overlaps the query and each one cost a search.
C8_Witness ==
    /\ pc = "done"
    /\ Len(extra.comments) >= 3
    /\ searches = Len(extra.comments)

\* C9: every successful search strictly lowers the index found, the search
\* list stays the prefix of comments before that index, and at most
\* Len(comments) searches succeed, for any comments and any query.
C9_NarrowingTerminates ==
    [][(pc = "loop" /\ pc' = "loop") =>
          /\ first_index_so_far' # None
          /\ first_index_so_far # None => first_index_so_far'[1] < first_index_so_far[1]
          /\ first_index_so_far'[1] < Len(search_list)
          /\ Len(search_list') = first_index_so_far'[1]
          /\ search_list' = SubSeq(extra.comments, 1, first_index_so_far'[1])
          /\ searches' <= Len(extra.comments) - Len(search_list')
      ]_vars

\* C9 witness: a third successful search on a sequence that breaks the
\* producer contract.
C9_Witness ==
    /\ pc = "loop"
    /\ searches >= 3
    /\ ~SortedNonOverlapping(extra.comments)

\* C10: whatever comments holds and whatever the query, a returned span is an
\* element of comments that overlaps the query, the index found always
\* addresses an element of comments, and has_comment_between is true only if
\* such a span exists.
C10_SoundWithoutContract ==
    /\ first_index_so_far # None => first_index_so_far[1] < Len(extra.comments)
    /\ (Returned /\ ret_span # None) =>
          /\ \E i \in 1..Len(extra.comments) : extra.comments[i] = ret_span[1]
          /\ Overlaps(ret_span[1], start, end)
    /\ (pc = "done" /\ op = "has" /\ ret_bool) =>
          Overlapping(extra.comments, start, end) # {}

\* C10 witness: the contract is broken, a span is returned, and it is not
\* the leftmost overlapping one.
C10_Witness ==
    /\ Returned
    /\ ~SortedNonOverlapping(extra.comments)
    /\ ret_span # None
    /\ \E i \in Overlapping(extra.comments, start, end) :
          extra.comments[i].start < ret_span[1].start

----------------------------------------------------------------------------
\* Properties of the index as a whole.

Contains(span, o) == span.start <= o /\ o <= span.end

InSome(list, o) == \E i \in 1..Len(list) : Contains(list[i], o)

\* C2: with the three comment sequences each sorted and non-overlapping and
\* unrelated to one another, is_within_comment(byte_index) is true exactly
\* when some span of comments, doc_comments or module_comments contains
\* byte_index, both ends included.
C2_WithinIffContained ==
    (pc = "done" /\ op = "within") =>
        ret_bool = (\/ InSome(extra.comments, start)
                    \/ InSome(extra.doc_comments, start)
                    \/ InSome(extra.module_comments, start))

\* C2 witness: only the second span of module_comments contains the offset,
\* at its end, and the first span of module_comments lies inside a span of
\* comments.
C2_Witness ==
    /\ pc = "done" /\ op = "within" /\ ret_bool
    /\ ~InSome(extra.comments, start)
    /\ ~InSome(extra.doc_comments, start)
    /\ Len(extra.module_comments) = 2
    /\ extra.module_comments[2].end = start
    /\ ~Contains(extra.module_comments[1], start)
    /\ Len(extra.comments) = 2
    /\ Len(extra.doc_comments) > 0
    /\ InSome(extra.comments, extra.module_comments[1].start)

\* C3: has_comment_between is true exactly when first_comment_between returns
\* a value, and both are determined by comments and the query alone: whatever
\* the other five sequences hold, has_comment_between is true iff some span of
\* comments overlaps the query, and first_comment_between returns a span of
\* comments iff one does.
C3_OnlyCommentsConsulted ==
    /\ (pc = "done" /\ op = "has") =>
          /\ ret_bool = (Overlapping(extra.comments, start, end) # {})
          /\ ret_bool = (GetIndexed(first_index_so_far, extra.comments) # None)
    /\ (pc = "done" /\ op = "first") =>
          /\ (ret_span # None) = (Overlapping(extra.comments, start, end) # {})
          /\ ret_span # None => \E i \in 1..Len(extra.comments) : extra.comments[i] = ret_span[1]

\* C3 witness: a span of doc_comments and a span of module_comments overlap
\* the query, no span of comments does, and has_comment_between is false.
C3_Witness ==
    /\ pc = "done" /\ op = "has" /\ ~ret_bool
    /\ Len(extra.comments) > 0
    /\ Overlapping(extra.doc_comments, start, end) # {}
    /\ Overlapping(extra.module_comments, start, end) # {}
    /\ Len(extra.empty_lines) > 0

\* C7: no step of a query changes any of the six sequences, and a query
\* issued again with the same arguments returns what it returned before.
C7_QueriesPureAndRepeatable ==
    [][/\ extra' = extra
       /\ (pc' = "done" /\ last' # None) => last'[1] = Result'
      ]_vars

\* C7 witness: first_comment_between was repeated, needed several searches
\* the second time, and returned a span.
C7_Witness ==
    /\ pc = "done" /\ op = "first"
    /\ last # None
    /\ searches >= 2
    /\ ret_span # None
    /\ Len(extra.doc_comments) > 0

----------------------------------------------------------------------------
\* Properties of Comment::from.

\* The offsets at which a character of txt starts, found by decoding txt from
\* its first byte, and the offset just past its last character.
RECURSIVE CharStarts(_, _)
CharStarts(txt, o) ==
    IF o >= Len(txt) THEN {o}
    ELSE LET b == txt[o + 1]
             w == IF b < 128 THEN 1 ELSE IF b < 224 THEN 2 ELSE 3
         IN {o} \cup CharStarts(txt, o + w)

ValidSpan(span, txt) ==
    /\ span.start <= span.end
    /\ span.end <= Len(txt)
    /\ span.start \in CharStarts(txt, 0)
    /\ span.end \in CharStarts(txt, 0)

\* C5: a successful conversion yields start = span.start and as content the
\* bytes of text at offsets span.start up to but not including span.end.
C5_ContentIsHalfOpenSlice ==
    (op = "from" /\ converted # None) =>
        /\ converted[1].start = src.start
        /\ Len(converted[1].content) = src.end - src.start
        /\ \A k \in 1..Len(converted[1].content) :
              converted[1].content[k] = text[src.start + k]

\* C5 witness: the content holds a multi-byte character and the text has a
\* byte at offset span.end, which the content leaves out.
C5_Witness ==
    /\ op = "from" /\ pc = "done" /\ converted # None
    /\ src.start > 0
    /\ src.end < Len(text)
    /\ \E k \in 1..Len(converted[1].content) : converted[1].content[k] >= 192

\* C6: the conversion panics exactly when the span is not start <= end <=
\* Len(text) with both ends on character boundaries; a valid span, also one
\* ending at Len(text), yields a Comment, and an invalid one never does.
C6_PanicsIffInvalidSpan ==
    op = "from" =>
        /\ (pc = "panic") = ~ValidSpan(src, text)
        /\ (pc = "done") = ValidSpan(src, text)
        /\ (converted # None) = ValidSpan(src, text)

\* C6 witness: a span inside the text whose end splits a multi-byte
\* character makes the conversion panic.
C6_Witness ==
    /\ op = "from" /\ pc = "panic"
    /\ src.start < src.end
    /\ src.end < Len(text)
    /\ src.start \in CharStarts(text, 0)

====
